---- MODULE Spec2Model ----
(***************************************************************************)
(* Model of utils/calculations.py: process_data, the reconciliation of     *)
(* the sales, inventory, marketing and logistics tables into the merged    *)
(* ledger, the channel-month aggregate and the overall summary.            *)
(*                                                                         *)
(* A table (pandas DataFrame) is a record                                  *)
(*   [present |-> BOOLEAN, columns |-> set of column names,               *)
(*    rows |-> sequence of rows]                                           *)
(* and a row is a function from the column names to the cell values.      *)
(* present = FALSE is the Python value None.                               *)
(***************************************************************************)
EXTENDS Integers, Sequences, FiniteSets, TLC

\* ------------------------------------------------------------------ bounds
MaxLines == 2
MaxMkt == 2

\* ------------------------------------------------------- values of cells
\* numpy.nan, the value a left merge leaves in a numeric cell with no match.
NaN == -999999

IsNaN(x) == x = NaN

\* Arithmetic of pandas columns: a NaN operand gives NaN.
Mul(a, b) == IF IsNaN(a) \/ IsNaN(b) THEN NaN ELSE a * b

Sub(a, b) == IF IsNaN(a) \/ IsNaN(b) THEN NaN ELSE a - b

\* Series.fillna(0)
FillNa0(x) == IF IsNaN(x) THEN 0 ELSE x

\* Comparison of two cells as Python compares floats: NaN equals nothing.
NumEq(a, b) == ~IsNaN(a) /\ ~IsNaN(b) /\ a = b

\* A quotient a / b kept exact as <<numerator, denominator>>; a denominator
\* of 0 stands for the inf or nan the division yields.
Div(a, b) == <<a, b>>

Zero == <<0, 1>>

Defined(q) == q[2] # 0

\* ------------------------------------------------------------- sequences
RECURSIVE SumSeq(_)
SumSeq(s) == IF s = <<>> THEN 0 ELSE Head(s) + SumSeq(Tail(s))

RECURSIVE Concat(_)
Concat(ss) == IF ss = <<>> THEN <<>> ELSE Head(ss) \o Concat(Tail(ss))

\* Series.sum(): missing values are skipped, the sum of nothing is 0.
SumSkipNa(rows, c) == SumSeq([i \in 1..Len(rows) |-> FillNa0(rows[i][c])])

\* Series.nunique()
NUnique(rows, c) == Cardinality({rows[i][c] : i \in 1..Len(rows)})

\* ---------------------------------------------------------------- tables
None == [present |-> FALSE, columns |-> {}, rows |-> <<>>]

Table(cols, rows) == [present |-> TRUE, columns |-> cols, rows |-> rows]

\* df[c] = f(row) for every row: the column is added or overwritten.
Assign(t, c, F(_)) ==
    Table(t.columns \cup {c},
          [i \in 1..Len(t.rows) |->
              [k \in t.columns \cup {c} |->
                  IF k = c THEN F(t.rows[i]) ELSE t.rows[i][k]]])

\* The missing cell of column c. A text column's missing cell is kept as
\* the text str() makes of it, which is all the code does with it.
TextColumns == {"Return_Status"}

Missing(c) == IF c \in TextColumns THEN "nan" ELSE NaN

\* pd.merge(left, right, on=key, how='left'): every left row, once per
\* right row with the same key, or once with the right columns missing.
LeftMerge(left, right, key) ==
    LET cols == left.columns \cup right.columns
        Join(l, r) == [k \in cols |-> IF k \in left.columns THEN l[k] ELSE r[k]]
        Alone(l) == [k \in cols |-> IF k \in left.columns THEN l[k] ELSE Missing(k)]
        Matches(l) == SelectSeq(right.rows, LAMBDA r : r[key] = l[key])
        Expand(l) == IF Matches(l) = <<>> THEN <<Alone(l)>>
                     ELSE [j \in 1..Len(Matches(l)) |-> Join(l, Matches(l)[j])]
    IN Table(cols, Concat([i \in 1..Len(left.rows) |-> Expand(left.rows[i])]))

\* ------------------------------------------------- process_data, steps 1-3
\* Dates are MMDD numbers; Series.dt.to_period('M').dt.to_timestamp() puts
\* a date on the first day of its month.
MonthStart(d) == (d \div 100) * 100 + 1

\* Step 1: the copy of sales with the Month column.
PreprocessSales(sales) ==
    Assign(sales, "Month", LAMBDA r : MonthStart(r["Order_Date"]))

\* Step 2: Total_COGS from whichever cost column the merge brought in.
TotalCOGS(t) ==
    IF "Cost_Price" \in t.columns
    THEN Assign(t, "Total_COGS", LAMBDA r : Mul(r["Cost_Price"], r["Units_Sold"]))
    ELSE IF "COGS_per_Unit" \in t.columns
    THEN Assign(t, "Total_COGS", LAMBDA r : Mul(r["COGS_per_Unit"], r["Units_Sold"]))
    ELSE Assign(t, "Total_COGS", LAMBDA r : 0)

GrossSalesValue(t) == Assign(t, "Gross_Sales_Value", LAMBDA r : r["Revenue"])

\* Lower without the change of case.
LowerAsIs(x) == x

\* str(x).lower() on the status texts the model uses.
Lower(x) ==
    CASE x = "RTO" -> "rto"
      [] x = "Returned" -> "returned"
      [] x = "Return" -> "return"
      [] x = "Delivered" -> "delivered"
      [] OTHER -> x

ReturnSynonyms == {"returned", "rto", "return"}

StatusIsReturn(x) == IF Lower(x) \in ReturnSynonyms THEN 1 ELSE 0

\* Step 3, after the merge on Order_ID: the return flag of every line.
NormalizeReturn(t) ==
    LET derived ==
            IF "Is_Return" \notin t.columns
            THEN IF "Return_Status" \in t.columns
                 THEN Assign(t, "Is_Return", LAMBDA r : StatusIsReturn(r["Return_Status"]))
                 ELSE Assign(t, "Is_Return", LAMBDA r : 0)
            ELSE t
    IN Assign(derived, "Is_Return", LAMBDA r : FillNa0(r["Is_Return"]))

NoLogistics(t) ==
    Assign(Assign(t, "Fulfillment_Cost", LAMBDA r : 0), "Is_Return", LAMBDA r : 0)

\* NetRevenue with half of a returned line's revenue refunded.
NetRevenuePartial(r) == IF r["Is_Return"] = 1 THEN r["Revenue"] \div 2 ELSE r["Revenue"]

\* NetRevenue with the return flag ignored.
NetRevenueKept(r) == r["Revenue"]

\* Net revenue of a line: np.where(Is_Return == 1, 0, Revenue).
NetRevenue(r) == IF r["Is_Return"] = 1 THEN 0 ELSE r["Revenue"]

GrossProfit(r) == Sub(r["Net_Revenue"], r["Total_COGS"])

ContributionProfit1(r) == Sub(r["Gross_Profit"], r["Fulfillment_Cost"])

LineMetrics(t) ==
    Assign(Assign(Assign(t, "Net_Revenue", NetRevenue),
                  "Gross_Profit", GrossProfit),
           "Contribution_Profit_1", ContributionProfit1)

\* ------------------------------------------------- process_data, steps 4-5
\* Channel names in the order Python sorts them.
ChannelOrder == <<"Amazon", "Web">>

Rank(ch) == CHOOSE i \in 1..Len(ChannelOrder) : ChannelOrder[i] = ch

KeyOf(r) == <<r["Channel"], r["Month"]>>

KeyLess(k, j) == Rank(k[1]) < Rank(j[1]) \/ (k[1] = j[1] /\ k[2] < j[2])

\* groupby and an outer merge both give their keys sorted.
RECURSIVE SortKeys(_)
SortKeys(K) ==
    IF K = {} THEN <<>>
    ELSE LET first == CHOOSE k \in K : \A j \in K : j = k \/ KeyLess(k, j)
         IN <<first>> \o SortKeys(K \ {first})

Keys(rows) == {KeyOf(rows[i]) : i \in 1..Len(rows)}

RowsOf(rows, k) == SelectSeq(rows, LAMBDA r : KeyOf(r) = k)

GroupColumns ==
    {"Channel", "Month", "Revenue", "Net_Revenue", "Total_COGS", "Fulfillment_Cost",
     "Contribution_Profit_1", "Units_Sold", "Order_ID", "Return_Count"}

\* One row of merged_df.groupby(['Channel', 'Month']).agg(...).
GroupRow(rows, k) ==
    LET g == RowsOf(rows, k)
    IN [Channel |-> k[1], Month |-> k[2],
        Revenue |-> SumSkipNa(g, "Revenue"),
        Net_Revenue |-> SumSkipNa(g, "Net_Revenue"),
        Total_COGS |-> SumSkipNa(g, "Total_COGS"),
        Fulfillment_Cost |-> SumSkipNa(g, "Fulfillment_Cost"),
        Contribution_Profit_1 |-> SumSkipNa(g, "Contribution_Profit_1"),
        Units_Sold |-> SumSkipNa(g, "Units_Sold"),
        Order_ID |-> NUnique(g, "Order_ID"),
        Return_Count |-> SumSkipNa(g, "Is_Return")]

\* Step 4: the sales-derived aggregate, one row per (Channel, Month).
ChannelGroup(merged) ==
    LET ks == SortKeys(Keys(merged.rows))
    IN Table(GroupColumns, [i \in 1..Len(ks) |-> GroupRow(merged.rows, ks[i])])

\* Step 5, on the caller's table: marketing['Date'] and marketing['Month']
\* are assigned in place. Dates are held as Timestamps, which to_datetime
\* leaves as they are.
MarketingWithMonth(marketing) ==
    Assign(Assign(marketing, "Date", LAMBDA r : r["Date"]),
           "Month", LAMBDA r : MonthStart(r["Date"]))

\* MktAgg with a later record of a channel and month overwriting the
\* earlier ones.
MktAggLast(marketing) ==
    LET ks == SortKeys(Keys(marketing.rows))
        Last(k) == RowsOf(marketing.rows, k)[Len(RowsOf(marketing.rows, k))]
    IN Table({"Channel", "Month", "Spend"},
             [i \in 1..Len(ks) |->
                 [Channel |-> ks[i][1], Month |-> ks[i][2], Spend |-> Last(ks[i])["Spend"]]])

\* marketing.groupby(['Channel', 'Month'])['Spend'].sum().reset_index()
MktAgg(marketing) ==
    LET ks == SortKeys(Keys(marketing.rows))
    IN Table({"Channel", "Month", "Spend"},
             [i \in 1..Len(ks) |->
                 [Channel |-> ks[i][1], Month |-> ks[i][2],
                  Spend |-> SumSkipNa(RowsOf(marketing.rows, ks[i]), "Spend")]])

\* OuterMergeFillNa as an inner merge: the keys of both sides alone.
InnerMergeFillNa(left, right) ==
    LET ks == SortKeys(Keys(left.rows) \cap Keys(right.rows))
        cols == left.columns \cup right.columns
        Row(k) ==
            [c \in cols |->
                IF c = "Channel" THEN k[1]
                ELSE IF c = "Month" THEN k[2]
                ELSE IF c \in left.columns THEN FillNa0(RowsOf(left.rows, k)[1][c])
                ELSE FillNa0(RowsOf(right.rows, k)[1][c])]
    IN Table(cols, [i \in 1..Len(ks) |-> Row(ks[i])])

\* pd.merge(channel_group, mkt_agg, on=['Channel', 'Month'], how='outer')
\* followed by .fillna(0). Both sides have one row per key.
OuterMergeFillNa(left, right) ==
    LET ks == SortKeys(Keys(left.rows) \cup Keys(right.rows))
        cols == left.columns \cup right.columns
        Cell(side, k, c) ==
            IF k \in Keys(side.rows) THEN RowsOf(side.rows, k)[1][c] ELSE NaN
        Row(k) ==
            [c \in cols |->
                IF c = "Channel" THEN k[1]
                ELSE IF c = "Month" THEN k[2]
                ELSE IF c \in left.columns THEN FillNa0(Cell(left, k, c))
                ELSE FillNa0(Cell(right, k, c))]
    IN Table(cols, [i \in 1..Len(ks) |-> Row(ks[i])])

MergeMarketing(channel_group, marketing) ==
    IF marketing.present
    THEN OuterMergeFillNa(channel_group, MktAgg(MarketingWithMonth(marketing)))
    ELSE Assign(channel_group, "Spend", LAMBDA r : 0)

\* ------------------------------------------------- process_data, steps 6-7
\* Where without the guard.
WhereUnguarded(cond, q) == q

\* np.where(cond, a / b, 0): the quotient is computed for every row and
\* kept where cond holds.
Where(cond, q) == IF cond THEN q ELSE Zero

ContributionProfit2(r) == r["Contribution_Profit_1"] - r["Spend"]

CAC(r) == Where(r["Order_ID"] > 0, Div(r["Spend"], r["Order_ID"]))

ROAS(r) == Where(r["Spend"] > 0, Div(r["Revenue"], r["Spend"]))

AOV(r) == Where(r["Order_ID"] > 0, Div(r["Revenue"], r["Order_ID"]))

CMPct(r) == Where(r["Net_Revenue"] > 0, Div(r["Contribution_Profit_2"], r["Net_Revenue"]))

ReturnRatePct(r) == Where(r["Order_ID"] > 0, Div(r["Return_Count"], r["Order_ID"]))

\* Step 6: the derived columns of the channel-month aggregate.
UnitEconomics(t) ==
    Assign(Assign(Assign(Assign(Assign(Assign(t,
        "Contribution_Profit_2", ContributionProfit2),
        "CAC", CAC), "ROAS", ROAS), "AOV", AOV), "CM_Pct", CMPct),
        "Return_Rate_Pct", ReturnRatePct)

\* Step 7: the overall summary, reduced from the channel-month aggregate.
Overall(cm) ==
    LET gross_rev == SumSkipNa(cm.rows, "Revenue")
        net_rev == SumSkipNa(cm.rows, "Net_Revenue")
        total_spend == SumSkipNa(cm.rows, "Spend")
        total_orders == SumSkipNa(cm.rows, "Order_ID")
        total_margin == SumSkipNa(cm.rows, "Contribution_Profit_2")
        return_count == SumSkipNa(cm.rows, "Return_Count")
    IN [Gross_Revenue |-> gross_rev,
        Net_Revenue |-> net_rev,
        Total_Spend |-> total_spend,
        Total_Orders |-> total_orders,
        Net_Profit |-> total_margin,
        Blended_ROAS |-> Where(total_spend > 0, Div(gross_rev, total_spend)),
        Blended_CAC |-> Where(total_orders > 0, Div(total_spend, total_orders)),
        Blended_CM_Pct |-> Where(net_rev > 0, Div(total_margin, net_rev)),
        Return_Rate |-> Where(total_orders > 0, Div(return_count, total_orders))]

\* ----------------------------------------------------------- process_data
Raised(exc, marketing) ==
    [error |-> exc, merged_df |-> None, channel_metrics |-> None,
     overall |-> <<>>, marketing |-> marketing]

\* Steps 4-7, from the merged ledger on. The caller's marketing table is
\* the object the function assigns Date and Month on.
Aggregate(merged, marketing) ==
    LET cm == UnitEconomics(MergeMarketing(ChannelGroup(merged), marketing))
    IN [error |-> "", merged_df |-> merged, channel_metrics |-> cm,
        overall |-> Overall(cm),
        marketing |-> IF marketing.present THEN MarketingWithMonth(marketing)
                      ELSE marketing]

\* Step 3: the logistics merge and the return flag.
MergeLogistics(m, logistics, marketing) ==
    IF logistics.present /\ "Order_ID" \in logistics.columns /\ "Order_ID" \in m.columns
    THEN LET j == LeftMerge(m, logistics, "Order_ID")
         IN IF "Fulfillment_Cost" \notin j.columns
            THEN Raised("KeyError", marketing)
            ELSE Aggregate(
                   LineMetrics(NormalizeReturn(
                     Assign(j, "Fulfillment_Cost",
                            LAMBDA r : FillNa0(r["Fulfillment_Cost"])))),
                   marketing)
    ELSE Aggregate(LineMetrics(NoLogistics(m)), marketing)

\* process_data(sales, inventory, marketing, logistics): what it returns or
\* raises, and the marketing table as the call leaves it.
process_data(sales, inventory, marketing, logistics) ==
    IF ~inventory.present THEN Raised("TypeError", marketing)
    ELSE IF "SKU" \notin inventory.columns THEN Raised("KeyError", marketing)
    ELSE MergeLogistics(
           GrossSalesValue(TotalCOGS(LeftMerge(PreprocessSales(sales), inventory, "SKU"))),
           logistics, marketing)

\* ------------------------------------------------------------------ inputs
SeqsUpTo(S, n) == UNION {[1..k -> S] : k \in 0..n}

Restrict(r, cols) == [c \in cols |-> r[c]]

OrderIds == {1, 2}

Skus == {1, 2}

SkuOrder == <<1, 2>>

SalesColumns == {"Order_Date", "Order_ID", "SKU", "Channel", "Units_Sold", "Revenue"}

\* What a line sells: two units of SKU 1, or one free unit of SKU 2.
Items ==
    {[SKU |-> 1, Units_Sold |-> 2, Revenue |-> 20],
     [SKU |-> 2, Units_Sold |-> 1, Revenue |-> 0]}

\* Where and when a line sells: two channels in January, one of them in
\* February too.
Places ==
    {[Channel |-> "Web", Order_Date |-> 105],
     [Channel |-> "Amazon", Order_Date |-> 120],
     [Channel |-> "Web", Order_Date |-> 201]}

SalesLines ==
    {[Order_Date |-> p.Order_Date, Order_ID |-> o, SKU |-> it.SKU,
      Channel |-> p.Channel, Units_Sold |-> it.Units_Sold, Revenue |-> it.Revenue] :
        o \in OrderIds, it \in Items, p \in Places}

\* Sales tables of up to MaxLines lines.
SalesTables == {Table(SalesColumns, rows) : rows \in SeqsUpTo(SalesLines, MaxLines)}

\* Sales tables of one line of order 1, in every combination of SKU, units
\* and revenue.
SingleLines ==
    [Order_Date : {105}, Order_ID : {1}, SKU : Skus, Channel : {"Web"},
     Units_Sold : {1, 2}, Revenue : {0, 10}]

SingleLineTables == {Table(SalesColumns, <<l>>) : l \in SingleLines}

\* Inventory: a unit cost per SKU, under either name of the cost column,
\* with or without the cost column, with or without the SKU column.
InventorySchemas ==
    {{"SKU", "Cost_Price"}, {"SKU", "COGS_per_Unit"}, {"SKU"}, {"Cost_Price"}}

UnitCost(sku) == IF sku = 1 THEN 3 ELSE 5

InventoryRows(S, cols) ==
    LET skus == SelectSeq(SkuOrder, LAMBDA k : k \in S)
    IN [i \in 1..Len(skus) |->
          Restrict([SKU |-> skus[i], Cost_Price |-> UnitCost(skus[i]),
                    COGS_per_Unit |-> UnitCost(skus[i])], cols)]

InventoryTables ==
    {None} \cup {Table(cols, InventoryRows(S, cols)) :
                    cols \in InventorySchemas, S \in SUBSET Skus}

\* Logistics: one record per order at most, the return given as a flag, as
\* a status text or not at all; with or without the Order_ID column and
\* the Fulfillment_Cost column.
LogisticsSchemas ==
    {{"Order_ID", "Fulfillment_Cost", "Is_Return"},
     {"Order_ID", "Fulfillment_Cost", "Return_Status"},
     {"Order_ID", "Fulfillment_Cost"},
     {"Fulfillment_Cost", "Is_Return"},
     {"Order_ID", "Is_Return"}}

Statuses == {"RTO", "Returned", "Return", "Delivered"}

ShippingCost(o) == IF o = 1 THEN 4 ELSE 6

LogisticsRecords ==
    {[Order_ID |-> o, Fulfillment_Cost |-> ShippingCost(o), Is_Return |-> f,
      Return_Status |-> st] : o \in OrderIds, f \in {0, 1}, st \in Statuses}

\* Tables of at most one record, in every schema.
LogisticsRows(cols) == {<<>>} \cup {<<Restrict(r, cols)>> : r \in LogisticsRecords}

LogisticsTables ==
    {None} \cup UNION {{Table(cols, rows) : rows \in LogisticsRows(cols)} :
                          cols \in LogisticsSchemas}

\* Tables with a record for every order, each returned or not.
OrderLogistics ==
    {None} \cup
    {Table({"Order_ID", "Fulfillment_Cost", "Is_Return"},
           [o \in 1..Len(f) |->
              [Order_ID |-> o, Fulfillment_Cost |-> ShippingCost(o), Is_Return |-> f[o]]]) :
        f \in [1..Cardinality(OrderIds) -> {0, 1}]}

\* Marketing: spend records, one in the channel and month of the January
\* sales on the Web (on another day), one for Amazon in February, where
\* no line sells.
MarketingColumns == {"Date", "Channel", "Spend"}

MarketingRecords ==
    {[Date |-> 120, Channel |-> "Web", Spend |-> 7],
     [Date |-> 201, Channel |-> "Amazon", Spend |-> 5]}

MarketingTables ==
    {None} \cup {Table(MarketingColumns, rows) : rows \in SeqsUpTo(MarketingRecords, MaxMkt)}

\* ------------------------------------------------------------------- state
VARIABLES sales, inventory, marketing, logistics, pc, error,
          merged_df, channel_metrics, overall

vars == <<sales, inventory, marketing, logistics, pc, error,
          merged_df, channel_metrics, overall>>

\* The tables the caller holds: one sales line under every shape of the
\* optional tables,
LineInputs ==
    /\ sales \in SingleLineTables
    /\ inventory \in InventoryTables
    /\ logistics \in LogisticsTables
    /\ marketing \in {None, Table(MarketingColumns, <<>>)}

\* or several lines over the channels and months, the inventory knowing
\* SKU 1 alone, with the orders' returns and the marketing records.
ChannelInputs ==
    /\ sales \in SalesTables
    /\ inventory = Table({"SKU", "Cost_Price"}, InventoryRows({1}, {"SKU", "Cost_Price"}))
    /\ logistics \in OrderLogistics
    /\ marketing \in MarketingTables

Init ==
    /\ LineInputs \/ ChannelInputs
    /\ pc = "ready"
    /\ error = ""
    /\ merged_df = None
    /\ channel_metrics = None
    /\ overall = <<>>

\* The caller's call of process_data on the tables it holds: it returns the
\* three results, or raises and returns nothing. (The result is bound by
\* \E over a singleton so that it is computed once.)
ProcessData ==
    /\ pc = "ready"
    /\ \E res \in {process_data(sales, inventory, marketing, logistics)} :
          /\ pc' = IF res.error = "" THEN "done" ELSE "raised"
          /\ error' = res.error
          /\ merged_df' = res.merged_df
          /\ channel_metrics' = res.channel_metrics
          /\ overall' = res.overall
          /\ marketing' = res.marketing
    /\ UNCHANGED <<sales, inventory, logistics>>

Next == ProcessData

Spec == Init /\ [][Next]_vars

\* ================================================================== claims
Done == pc = "done"

Ledger == merged_df.rows

ChannelMonth == channel_metrics.rows

LedgerRows == 1..Len(Ledger)

ChannelMonthRows == 1..Len(ChannelMonth)

\* The inventory record of a line's SKU exists.
Matched(l) == \E i \in 1..Len(inventory.rows) : inventory.rows[i]["SKU"] = l["SKU"]

\* C1: every ledger row whose resolved return flag is true has
\* Net_Revenue = 0 and Contribution_Profit_1 = -Total_COGS - Fulfillment_Cost.
C1_ReturnedLineKeepsCosts ==
    Done =>
      \A i \in LedgerRows :
        Ledger[i]["Is_Return"] = 1 =>
          /\ Ledger[i]["Net_Revenue"] = 0
          /\ NumEq(Ledger[i]["Contribution_Profit_1"],
                   Sub(Sub(0, Ledger[i]["Total_COGS"]), Ledger[i]["Fulfillment_Cost"]))

\* C2: in every ledger row Net_Revenue is 0 or the row's Revenue.
C2_NetRevenueZeroOrRevenue ==
    Done => \A i \in LedgerRows : Ledger[i]["Net_Revenue"] \in {0, Ledger[i]["Revenue"]}

\* A returned line and a kept line, both with revenue, in one ledger.
C2_Witness ==
    /\ Done
    /\ \E i, j \in LedgerRows :
          /\ Ledger[i]["Is_Return"] = 1 /\ Ledger[i]["Revenue"] > 0
          /\ Ledger[i]["Net_Revenue"] = 0
          /\ Ledger[j]["Is_Return"] = 0 /\ Ledger[j]["Net_Revenue"] = Ledger[j]["Revenue"]
          /\ Ledger[j]["Revenue"] > 0

\* C5: with the inventory table absent the call completes, and every ledger
\* row has Total_COGS = 0 and Gross_Profit = Net_Revenue.
C5_NoInventoryZeroCogs ==
    (~inventory.present /\ pc # "ready") =>
      /\ Done
      /\ \A i \in LedgerRows :
            /\ Ledger[i]["Total_COGS"] = 0
            /\ Ledger[i]["Gross_Profit"] = Ledger[i]["Net_Revenue"]

\* C6: with a cost column in the inventory, a line's Total_COGS is its SKU's
\* unit cost times Units_Sold, and 0 with Gross_Profit = Net_Revenue when
\* its SKU has no inventory record.
C6_CogsOfLine ==
    (Done /\ inventory.columns \cap {"Cost_Price", "COGS_per_Unit"} # {}) =>
      \A i \in LedgerRows :
        IF Matched(Ledger[i])
        THEN Ledger[i]["Total_COGS"] = UnitCost(Ledger[i]["SKU"]) * Ledger[i]["Units_Sold"]
        ELSE /\ Ledger[i]["Total_COGS"] = 0
             /\ Ledger[i]["Gross_Profit"] = Ledger[i]["Net_Revenue"]

ConservedColumns == {"Revenue", "Net_Revenue", "Total_COGS", "Fulfillment_Cost", "Units_Sold"}

RatioOk(den, q) == Defined(q) /\ (den = 0 => q = Zero)

\* C4: every ratio of a channel-month row and of the overall summary is a
\* defined number, and is 0 when its denominator is 0.
C4_RatiosZeroGuarded ==
    Done =>
      /\ \A i \in ChannelMonthRows :
            LET r == ChannelMonth[i]
            IN /\ RatioOk(r["Order_ID"], r["CAC"])
               /\ RatioOk(r["Spend"], r["ROAS"])
               /\ RatioOk(r["Order_ID"], r["AOV"])
               /\ RatioOk(r["Net_Revenue"], r["CM_Pct"])
               /\ RatioOk(r["Order_ID"], r["Return_Rate_Pct"])
      /\ RatioOk(overall.Total_Spend, overall.Blended_ROAS)
      /\ RatioOk(overall.Total_Orders, overall.Blended_CAC)
      /\ RatioOk(overall.Net_Revenue, overall.Blended_CM_Pct)
      /\ RatioOk(overall.Total_Orders, overall.Return_Rate)

\* A channel-month without orders, one without spend, and no net revenue
\* in the whole dataset.
C4_Witness ==
    /\ Done
    /\ \E i \in ChannelMonthRows : ChannelMonth[i]["Order_ID"] = 0
    /\ \E i \in ChannelMonthRows :
          ChannelMonth[i]["Spend"] = 0 /\ ChannelMonth[i]["Revenue"] > 0
    /\ overall.Net_Revenue = 0
    /\ overall.Blended_CM_Pct = Zero

ReturnTexts == {"RTO", "Returned", "Return"}

RecordsOf(l) == SelectSeq(logistics.rows, LAMBDA r : r["Order_ID"] = l["Order_ID"])

ExpectedReturn(l) ==
    IF ~logistics.present \/ "Order_ID" \notin logistics.columns THEN 0
    ELSE IF RecordsOf(l) = <<>> THEN 0
    ELSE IF "Is_Return" \in logistics.columns THEN RecordsOf(l)[1]["Is_Return"]
    ELSE IF "Return_Status" \in logistics.columns
         THEN (IF RecordsOf(l)[1]["Return_Status"] \in ReturnTexts THEN 1 ELSE 0)
    ELSE 0

ReturnedIn(k) == {i \in LedgerRows : KeyOf(Ledger[i]) = k /\ Ledger[i]["Is_Return"] = 1}

FlagsResolved ==
    /\ \A i \in LedgerRows :
          /\ Ledger[i]["Is_Return"] \in {0, 1}
          /\ Ledger[i]["Is_Return"] = ExpectedReturn(Ledger[i])
    /\ \A i \in ChannelMonthRows :
          ChannelMonth[i]["Return_Count"] = Cardinality(ReturnedIn(KeyOf(ChannelMonth[i])))

SalesKeys == {<<sales.rows[i]["Channel"], MonthStart(sales.rows[i]["Order_Date"])>> :
                i \in 1..Len(sales.rows)}

MarketingKeys == {<<marketing.rows[i]["Channel"], MonthStart(marketing.rows[i]["Date"])>> :
                    i \in 1..Len(marketing.rows)}

SpendOn(k) ==
    LET on == SelectSeq(marketing.rows,
                        LAMBDA r : <<r["Channel"], MonthStart(r["Date"])>> = k)
    IN SumSeq([i \in 1..Len(on) |-> on[i]["Spend"]])

SalesMetrics ==
    {"Revenue", "Net_Revenue", "Total_COGS", "Fulfillment_Cost", "Contribution_Profit_1",
     "Units_Sold", "Order_ID", "Return_Count"}

\* C9: the channel-month aggregate has one row for each (channel, month)
\* of the sales lines or of the marketing records and no other; a row
\* without sales has every sales metric 0; a row's Spend is the sum of the
\* marketing records of its channel and month, 0 without any.
C9_OneRowPerChannelMonth ==
    Done =>
      /\ {KeyOf(ChannelMonth[i]) : i \in ChannelMonthRows} = SalesKeys \cup MarketingKeys
      /\ Len(ChannelMonth) = Cardinality(SalesKeys \cup MarketingKeys)
      /\ \A i \in ChannelMonthRows :
            /\ KeyOf(ChannelMonth[i]) \notin SalesKeys =>
                  \A c \in SalesMetrics : ChannelMonth[i][c] = 0
            /\ ChannelMonth[i]["Spend"] = SpendOn(KeyOf(ChannelMonth[i]))

\* Two marketing records summed into a channel-month without sales, next
\* to a channel-month with sales and no marketing record.
C9_Witness ==
    /\ Done
    /\ Len(marketing.rows) = 2
    /\ \E i \in ChannelMonthRows :
          /\ KeyOf(ChannelMonth[i]) \notin SalesKeys
          /\ ChannelMonth[i]["Spend"] = 14
    /\ \E i \in ChannelMonthRows :
          /\ KeyOf(ChannelMonth[i]) \notin MarketingKeys
          /\ ChannelMonth[i]["Spend"] = 0 /\ ChannelMonth[i]["Revenue"] > 0

\* C10: a call of process_data leaves the caller's sales, inventory,
\* marketing and logistics tables as they were.
C10_InputsUnchanged ==
    [][ProcessData => UNCHANGED <<sales, inventory, marketing, logistics>>]_vars

\* The logistics table has its join key but no Fulfillment_Cost column.
NoFulfillmentColumn ==
    /\ logistics.present
    /\ "Order_ID" \in logistics.columns
    /\ "Fulfillment_Cost" \notin logistics.columns

\* C11: a join key absent on one side is not fatal. Without an Order_ID
\* column in logistics the call completes with Fulfillment_Cost 0 and
\* Is_Return 0 on every line; without a SKU column in inventory it
\* completes with Total_COGS 0 on every line; a line whose order has no
\* logistics record has Fulfillment_Cost 0.
C11_AbsentJoinKeyNotFatal ==
    /\ (pc # "ready" /\ inventory.present /\ "SKU" \in inventory.columns
          /\ logistics.present /\ "Order_ID" \notin logistics.columns) =>
         /\ Done
         /\ \A i \in LedgerRows :
               Ledger[i]["Fulfillment_Cost"] = 0 /\ Ledger[i]["Is_Return"] = 0
    /\ (pc # "ready" /\ inventory.present /\ "SKU" \notin inventory.columns
          /\ ~NoFulfillmentColumn) =>
         /\ Done
         /\ \A i \in LedgerRows : Ledger[i]["Total_COGS"] = 0
    /\ (Done /\ logistics.present /\ "Order_ID" \in logistics.columns) =>
         \A i \in LedgerRows :
           RecordsOf(Ledger[i]) = <<>> => Ledger[i]["Fulfillment_Cost"] = 0

\* C12: every channel-month row has a gross margin %, the column
\* Gross_Margin_Pct the dashboard formats, equal to (Revenue - Total_COGS)
\* / Revenue, and 0 when Revenue is 0.
C12_GrossMarginDerived ==
    Done =>
      /\ "Gross_Margin_Pct" \in channel_metrics.columns
      /\ \A i \in ChannelMonthRows :
            LET r == ChannelMonth[i]
            IN IF r["Revenue"] = 0 THEN r["Gross_Margin_Pct"] = Zero
               ELSE r["Gross_Margin_Pct"] = Div(r["Revenue"] - r["Total_COGS"], r["Revenue"])

\* A quotient between 0 and 1.
Proportion(q) == Defined(q) /\ 0 <= q[1] /\ q[1] <= q[2]

\* C13: every channel-month row's Return_Rate_Pct and the summary's
\* Return_Rate lie between 0 and 1.
C13_ReturnRateIsProportion ==
    Done =>
      /\ \A i \in ChannelMonthRows : Proportion(ChannelMonth[i]["Return_Rate_Pct"])
      /\ Proportion(overall.Return_Rate)

\* C14: the summary's Total_Orders is the number of distinct Order_ID
\* values of the sales table.
C14_TotalOrdersDistinct ==
    Done =>
      overall.Total_Orders =
        Cardinality({sales.rows[i]["Order_ID"] : i \in 1..Len(sales.rows)})

====
